---- MODULE Spec2Model ----
(***************************************************************************)
(* TileDB-Cloud-UDFs: the UDF catalog (public_udfs.py, csv_ingestor.py)    *)
(* and the registration manager (register_udfs.py).                        *)
(*                                                                         *)
(* Four specifications share the variables below:                          *)
(*   SpecIngest  single invocations of the catalog's UDFs                  *)
(*   SpecFanOut  one ingest_vcf_samples invocation per partition index     *)
(*   Spec        one registration process working against the registry     *)
(*   SpecRace    two registration processes working against the registry   *)
(***************************************************************************)
EXTENDS Integers, Sequences, FiniteSets, TLC

VARIABLES
    inv,        \* SpecIngest: the last UDF invocation, its arguments and result
    job,        \* SpecFanOut: the arguments shared by the partitions of one job
    shards,     \* SpecFanOut: partition index -> result of its invocation
    registry,   \* the platform's registry: a set of entries [ns, name, body]
    catalog,    \* the revision of public_udfs.py on disk
    proc,       \* registration process -> its position and locals
    log         \* finished add_public_udf invocations, oldest first

vars == <<inv, job, shards, registry, catalog, proc, log>>

(***************************************************************************)
(* Bounds of the model.                                                    *)
(***************************************************************************)
MaxLen == 3         \* longest sample list
MaxCount == 3       \* largest partition count
MaxOps == 2         \* registration operations one process starts in turn

\* add_public_udf's default namespace, and the test suite's.
DefaultNamespace == "TileDB-Inc"

Namespaces == {DefaultNamespace, "unittest"}

\* Python's None, as a value no URI or contig name equals.
None == "<None>"

URIs == {"s3://a.vcf.gz", "s3://b.vcf.gz"}

Contigs == {None, "", "chr1"}

MemoryBudgets == {7168}

Threads == {4}

\* Python truthiness of an Optional[str].
Truthy(s) == s # None /\ s # ""

(***************************************************************************)
(* Python sequence slicing seq[start::step] with no stop, on 0-based       *)
(* positions.  Walk visits the positions as the slice iterator does.       *)
(***************************************************************************)
RECURSIVE Walk(_, _, _)
Walk(pos, step, n) ==
    IF pos < 0 \/ pos >= n THEN <<>>
    ELSE <<pos>> \o Walk(pos + step, step, n)

Max(a, b) == IF a >= b THEN a ELSE b

Min(a, b) == IF a <= b THEN a ELSE b

\* Mutant of SliceStart: the partition index taken as 1-based.
SliceStartOneBased(n, start, step) ==
    IF start - 1 < 0 THEN Max(start - 1 + n, 0) ELSE Min(start - 1, n)

\* slice.indices(n) for the start of a slice whose step is not 0.
SliceStart(n, start, step) ==
    IF step > 0
    THEN IF start < 0 THEN Max(start + n, 0) ELSE Min(start, n)
    ELSE IF start < 0 THEN Max(start + n, -1) ELSE Min(start, n - 1)

\* Mutant of SlicePositions: seq[start:step], the stride taken as the stop.
SlicePositionsStartStop(n, start, step) ==
    Walk(SliceStart(n, start, 1), 1, Min(SliceStart(n, step, 1), n))

\* The 0-based positions seq[start::step] selects from a sequence of length n.
SlicePositions(n, start, step) == Walk(SliceStart(n, start, step), step, n)

\* seq[start::step]; step is not 0 (Python raises ValueError otherwise).
PySlice(seq, start, step) ==
    LET pos == SlicePositions(Len(seq), start, step)
    IN  [j \in 1..Len(pos) |-> seq[pos[j] + 1]]

(***************************************************************************)
(* ingest_vcf_samples.  args holds the arguments the model follows;        *)
(* sample_uris is [kind |-> "str", val |-> uri] or                         *)
(* [kind |-> "list", val |-> <<uri, ...>>]; fail names the external call   *)
(* that raises in this invocation, or "none".  The result records the      *)
(* external calls made in order, the keyword arguments of each             *)
(* ingest_samples call, the positions selected (<<>> before the slice),    *)
(* and either the returned value or the exception that left the function.  *)
(***************************************************************************)
AsList(sample_uris) ==
    IF sample_uris.kind = "str" THEN <<sample_uris.val>> ELSE sample_uris.val

\* Mutant of IngestSamplesKwargs: the caller's resume flag is not passed on,
\* and the contig is kept separate whenever it is not None.
IngestSamplesKwargsNoResume(this_shard, memory_budget_mb, threads, contig, resume) ==
    [sample_uris |-> this_shard,
     total_memory_budget_mb |-> memory_budget_mb,
     threads |-> threads,
     contig_mode |-> IF contig # None THEN "separate" ELSE "merged",
     contigs_to_keep_separate |-> <<contig>>,
     resume |-> FALSE]

\* The keyword arguments of ds.ingest_samples(...).
IngestSamplesKwargs(this_shard, memory_budget_mb, threads, contig, resume) ==
    LET base == [sample_uris |-> this_shard,
                 total_memory_budget_mb |-> memory_budget_mb,
                 threads |-> threads,
                 contig_mode |-> IF Truthy(contig) THEN "separate" ELSE "merged",
                 resume |-> resume]
    IN  IF Truthy(contig)
        THEN ("contigs_to_keep_separate" :> <<contig>>) @@ base
        ELSE base

\* Mutant of VcfIngestAndReturn: the full input list is returned.
VcfIngestAndReturnAll(kwargs, sample_uris, this_shard, fail) ==
    IF fail = "ingest_samples"
    THEN [trace |-> <<"ingest_samples">>, kwargs |-> <<kwargs>>,
          raised |-> TRUE, exc |-> "ingest_samples", ret |-> None]
    ELSE [trace |-> <<"ingest_samples">>, kwargs |-> <<kwargs>>,
          raised |-> FALSE, exc |-> None, ret |-> sample_uris]

\* One attempt of the external ingest operation and what follows it.
VcfIngestAndReturn(kwargs, sample_uris, this_shard, fail) ==
    IF fail = "ingest_samples"
    THEN [trace |-> <<"ingest_samples">>, kwargs |-> <<kwargs>>,
          raised |-> TRUE, exc |-> "ingest_samples", ret |-> None]
    ELSE [trace |-> <<"ingest_samples">>, kwargs |-> <<kwargs>>,
          raised |-> FALSE, exc |-> None, ret |-> this_shard]

ingest_vcf_samples(args, fail) ==
    LET uris == AsList(args.sample_uris)
        sp_i == args.partition_idx_count[1]
        sp_n == args.partition_idx_count[2]
        opened == <<"config_logging", "ReadConfig", "Dataset">>
        Raise(trace, exc) ==
            [trace |-> trace, kwargs |-> <<>>, positions |-> <<>>,
             raised |-> TRUE, exc |-> exc, ret |-> None]
    IN  IF fail = "Dataset" THEN Raise(opened, "Dataset")
        ELSE IF sp_n = 0
        THEN Raise(opened \o <<"schema_version">>, "ValueError")
        ELSE
            LET this_shard == PySlice(uris, sp_i, sp_n)
                kwargs == IngestSamplesKwargs(this_shard, args.memory_budget_mb,
                                              args.threads, args.contig,
                                              args.resume)
                r == VcfIngestAndReturn(kwargs, uris, this_shard, fail)
            IN  [trace |-> opened \o <<"schema_version">> \o r.trace,
                 kwargs |-> r.kwargs,
                 positions |-> SlicePositions(Len(uris), sp_i, sp_n),
                 raised |-> r.raised, exc |-> r.exc, ret |-> r.ret]

(***************************************************************************)
(* ingest_csv of public_udfs.py and of csv_ingestor.py.                    *)
(***************************************************************************)
\* Mutant of CsvIngestAndReturn: a failed from_csv is tried once more and the
\* second failure swallowed.
CsvIngestAndReturnRetry(from_csv_args, fail) ==
    IF fail = "from_csv"
    THEN [trace |-> <<"from_csv", "from_csv">>,
          from_csv |-> <<from_csv_args, from_csv_args>>,
          raised |-> FALSE, exc |-> None, ret |-> "done"]
    ELSE [trace |-> <<"from_csv">>, from_csv |-> <<from_csv_args>>,
          raised |-> FALSE, exc |-> None, ret |-> "done"]

\* tiledb.from_csv(...) once, then the return value.
CsvIngestAndReturn(from_csv_args, fail) ==
    IF fail = "from_csv"
    THEN [trace |-> <<"from_csv">>, from_csv |-> <<from_csv_args>>,
          raised |-> TRUE, exc |-> "from_csv", ret |-> None]
    ELSE [trace |-> <<"from_csv">>, from_csv |-> <<from_csv_args>>,
          raised |-> FALSE, exc |-> None, ret |-> "done"]

\* public_udfs.ingest_csv(source_csv, target, key, secret, **kwargs)
ingest_csv(source_csv, target, key, secret, kwargs, fail) ==
    IF fail = "default_ctx"
    THEN [trace |-> <<"default_ctx">>, from_csv |-> <<>>,
          raised |-> TRUE, exc |-> "default_ctx", ret |-> None]
    ELSE LET r == CsvIngestAndReturn(
                      [uri |-> target, csv_file |-> source_csv, kwargs |-> kwargs],
                      fail)
         IN  [r EXCEPT !.trace = <<"default_ctx">> \o r.trace]

\* f"tiledb://{namespace}/{target_array}", kept as its parts.
TargetTiledbArray(namespace, target_array) ==
    <<"tiledb://", namespace, "/", target_array>>

\* csv_ingestor.ingest_csv(args_list): args_list[0] holds the five arguments.
csv_ingestor_ingest_csv(args_list, fail) ==
    LET a == args_list[1]
        source_csv == a[1]
        target_array == a[2]
        namespace == a[3]
    IN  IF fail = "default_ctx"
        THEN [trace |-> <<"default_ctx">>, from_csv |-> <<>>,
              raised |-> TRUE, exc |-> "default_ctx", ret |-> None]
        ELSE LET r == CsvIngestAndReturn(
                          [uri |-> TargetTiledbArray(namespace, target_array),
                           csv_file |-> source_csv, kwargs |-> "{}"],
                          fail)
             IN  [r EXCEPT !.trace = <<"default_ctx">> \o r.trace]

(***************************************************************************)
(* SpecIngest: the platform executes one UDF of the catalog on the         *)
(* arguments of the caller; inv holds the invocation once it has ended.    *)
(***************************************************************************)
\* Sequences over S of length at most n.
SeqsUpTo(S, n) == UNION {[1..m -> S] : m \in 0..n}

SampleArgs ==
    {[kind |-> "str", val |-> u] : u \in URIs}
        \cup {[kind |-> "list", val |-> s] : s \in SeqsUpTo(URIs, MaxLen)}

\* partition_idx_count as any caller may pass it.
PartitionArgs == (-1..MaxCount) \X (-1..MaxCount)

\* The arguments of ingest_vcf_samples that the model follows.
VcfArgs ==
    [contig : Contigs, sample_uris : SampleArgs,
     partition_idx_count : PartitionArgs,
     memory_budget_mb : MemoryBudgets, threads : Threads, resume : BOOLEAN]

VcfFailures == {"none", "Dataset", "ingest_samples"}

CsvFailures == {"none", "default_ctx", "from_csv"}

CsvTargets == {"tiledb://unittest/s3://tiledb-unittest/a.tdb", "s3://tiledb-unittest/a.tdb"}

CsvKwargs == {"mode=ingest", "mode=append", "mode=schema_only"}

InvokeIngestVcfSamples(args, fail) ==
    /\ inv.udf = "none"
    /\ inv' = [udf |-> "ingest_vcf_samples", args |-> args, fail |-> fail,
               result |-> ingest_vcf_samples(args, fail)]
    /\ UNCHANGED <<job, shards, registry, catalog, proc, log>>

InvokeIngestCsv(source_csv, target, kwargs, fail) ==
    /\ inv.udf = "none"
    /\ inv' = [udf |-> "ingest_csv",
               args |-> [source_csv |-> source_csv, target |-> target,
                         kwargs |-> kwargs],
               fail |-> fail,
               result |-> ingest_csv(source_csv, target, "key", "secret",
                                     kwargs, fail)]
    /\ UNCHANGED <<job, shards, registry, catalog, proc, log>>

InvokeCsvIngestor(source_csv, target_array, namespace, fail) ==
    /\ inv.udf = "none"
    /\ inv' = [udf |-> "csv_ingestor.ingest_csv",
               args |-> [source_csv |-> source_csv, target |-> target_array,
                         namespace |-> namespace],
               fail |-> fail,
               result |-> csv_ingestor_ingest_csv(
                              <<<<source_csv, target_array, namespace,
                                  "key", "secret">>>>, fail)]
    /\ UNCHANGED <<job, shards, registry, catalog, proc, log>>

InitNoRegistration ==
    /\ registry = {}
    /\ catalog = 1
    /\ proc = <<>>
    /\ log = <<>>

InitIngest ==
    /\ inv = [udf |-> "none"]
    /\ job = [udf |-> "none"]
    /\ shards = <<>>
    /\ InitNoRegistration

NextIngest ==
    \/ \E args \in VcfArgs, fail \in VcfFailures :
            InvokeIngestVcfSamples(args, fail)
    \/ \E target \in CsvTargets, kwargs \in CsvKwargs, fail \in CsvFailures :
            InvokeIngestCsv("s3://tiledb-unittest/a.csv", target, kwargs, fail)
    \/ \E namespace \in Namespaces, fail \in CsvFailures :
            InvokeCsvIngestor("s3://tiledb-unittest/a.csv",
                              "s3://tiledb-unittest/a.tdb", namespace, fail)

SpecIngest == InitIngest /\ [][NextIngest]_vars

(***************************************************************************)
(* SpecFanOut: the calling harness issues one ingest_vcf_samples           *)
(* invocation per partition index of a job, in any order.                  *)
(***************************************************************************)
RunPartition(sp_i, fail) ==
    /\ sp_i \in 0..(job.sp_n - 1)
    /\ sp_i \notin DOMAIN shards
    /\ shards' = (sp_i :> ingest_vcf_samples(
                              [contig |-> job.contig,
                               sample_uris |-> job.sample_uris,
                               partition_idx_count |-> <<sp_i, job.sp_n>>,
                               memory_budget_mb |-> job.memory_budget_mb,
                               threads |-> job.threads,
                               resume |-> job.resume], fail)) @@ shards
    /\ UNCHANGED <<inv, job, registry, catalog, proc, log>>

InitFanOut ==
    /\ inv = [udf |-> "none"]
    /\ job \in [udf : {"ingest_vcf_samples"}, contig : Contigs,
                sample_uris : SampleArgs, sp_n : 1..MaxCount,
                memory_budget_mb : MemoryBudgets, threads : Threads,
                resume : BOOLEAN]
    /\ shards = <<>>
    /\ InitNoRegistration

NextFanOut ==
    \E sp_i \in 0..(MaxCount - 1), fail \in {"none", "ingest_samples"} :
        RunPartition(sp_i, fail)

SpecFanOut == InitFanOut /\ [][NextFanOut]_vars

(***************************************************************************)
(* The registration manager, register_udfs.py.                             *)
(*                                                                         *)
(* A UDF name is the sequence of its words ("ingest_csv" is                *)
(* <<"ingest", "csv">>), so that the registry's text search can be         *)
(* computed.  A function object is [code, globals, defaults]; its code is  *)
(* [co_name, version], the version standing for the text of the body.      *)
(***************************************************************************)
MaxVersion == 2     \* revisions of public_udfs.py

\* inspect.getmembers(public_udfs, inspect.isfunction), sorted by name.
CatalogNames == << <<"ingest", "csv">>, <<"ingest", "vcf", "samples">> >>

\* "test_{}".format(udf.__name__): the name the test fixture registers.
TestName(name) == <<"test">> \o name

\* __defaults__ of the catalog's functions: stats=False, resume=False.
CatalogDefaults(name) ==
    IF name = CatalogNames[2] THEN <<FALSE, FALSE>> ELSE <<>>

\* The function object public_udfs holds at revision v.
CatalogFunction(i, v) ==
    [code |-> [co_name |-> CatalogNames[i], version |-> v],
     globals |-> {"public_udfs"},
     defaults |-> CatalogDefaults(CatalogNames[i])]

\* types.FunctionType(code, globals): no defaults, the name from the code.
FunctionType(code, globals) ==
    [code |-> code, globals |-> globals, defaults |-> <<>>]

\* What a run of an earlier revision left in the registry.
StaleBody(name) == FunctionType([co_name |-> name, version |-> 0], {})

\* s occurs in t as a run of consecutive words.
IsInfix(s, t) ==
    \E k \in 1..(Len(t) - Len(s) + 1) : SubSeq(t, k, k + Len(s) - 1) = s

\* The platform's answer to list_arrays(file_type=[UDF], namespace, search):
\* the UDF entries of the namespace whose name the search text occurs in.
list_arrays(reg, namespace, search) ==
    {e \in reg : e.ns = namespace /\ IsInfix(search, e.name)}

\* What the call can come back with: an error, a response whose arrays is
\* None, or a response listing the matches.
Responses(reg, namespace, search) ==
    {[kind |-> "raise", arrays |-> {}],
     [kind |-> "none", arrays |-> {}],
     [kind |-> "list", arrays |-> list_arrays(reg, namespace, search)]}

\* udf_exists from the response on: True, False, or the StopIteration of the
\* generator's __next__() when no listed entry has the name.
udf_exists(response, udf_name) ==
    IF response.kind = "none" \/ response.arrays = {}
    THEN [raised |-> FALSE, value |-> FALSE]
    ELSE IF \E array \in response.arrays : array.name = udf_name
    THEN [raised |-> FALSE, value |-> TRUE]
    ELSE [raised |-> TRUE, value |-> FALSE]

\* Mutant of WriteCall: the branches exchanged.
WriteCallInverted(exists) == IF exists THEN "register" ELSE "update"

\* The branch of add_public_udf: which platform call follows the lookup.
WriteCall(exists) == IF exists THEN "update" ELSE "register"

Entries(reg, namespace, name) ==
    {e \in reg : e.ns = namespace /\ e.name = name}

\* The platform's register_generic_udf: a new entry, or an error when the
\* name is taken.
register_generic_udf(reg, udf_code, udf_name, namespace) ==
    IF Entries(reg, namespace, udf_name) # {}
    THEN [reg |-> reg, exc |-> "DuplicateError"]
    ELSE [reg |-> reg \cup {[ns |-> namespace, name |-> udf_name,
                             body |-> udf_code]},
          exc |-> None]

\* The platform's update_generic_udf: the stored body replaced whole, or an
\* error when there is no entry of that name.
update_generic_udf(reg, udf_code, udf_name, namespace) ==
    IF Entries(reg, namespace, udf_name) = {}
    THEN [reg |-> reg, exc |-> "NotFoundError"]
    ELSE [reg |-> (reg \ Entries(reg, namespace, udf_name))
                    \cup {[ns |-> namespace, name |-> udf_name,
                           body |-> udf_code]},
          exc |-> None]

\* A process that has started nothing and may start `ops` operations.
Idle(ops) ==
    [pc |-> "idle", op |-> "none", ns |-> DefaultNamespace, idx |-> 0,
     udf_code |-> StaleBody(<<>>), exists |-> FALSE,
     response |-> "none", listed |-> {}, seen |-> {}, faulted |-> FALSE,
     left |-> ops]

\* The head of add_public_udf: the stripped function and its name.
EnterAddPublicUdf(p, op, i, namespace, revision) ==
    [pc |-> "lookup", op |-> op, ns |-> namespace, idx |-> i,
     udf_code |-> FunctionType(CatalogFunction(i, revision).code, {}),
     exists |-> FALSE, response |-> "none", listed |-> {}, seen |-> {},
     faulted |-> proc[p].faulted /\ op = "all" /\ i > 1,
     left |-> IF op = "all" /\ i > 1 THEN proc[p].left ELSE proc[p].left - 1]

udf_name(p) == proc[p].udf_code.code.co_name

\* The record of a finished add_public_udf invocation: its arguments, what
\* its lookup was answered (the names listed, the bodies listed under the
\* name itself), the platform call it made, the bodies the registry held
\* under the name when the call arrived, and the exception that ended it.
LogEntry(p, looked, call, exc) ==
    [p |-> p, op |-> proc[p].op, ns |-> proc[p].ns, name |-> udf_name(p),
     body |-> proc[p].udf_code, response |-> looked.response,
     listed |-> looked.listed, seen |-> looked.seen,
     before |-> {e.body : e \in Entries(registry, proc[p].ns, udf_name(p))},
     call |-> call, exc |-> exc]

CanStart(p) ==
    /\ proc[p].pc \in {"idle", "returned", "raised"}
    /\ proc[p].left > 0

\* A process is started on the current revision of public_udfs.py, which
\* may have been edited since the last one was.
Import(edited) ==
    /\ edited => catalog < MaxVersion
    /\ catalog' = IF edited THEN catalog + 1 ELSE catalog

\* add_public_udf(fnc, namespace) called on a catalog function.
StartAddPublicUdf(p, i, namespace, edited) ==
    /\ CanStart(p)
    /\ Import(edited)
    /\ proc' = [proc EXCEPT ![p] = EnterAddPublicUdf(p, "single", i, namespace,
                                                       catalog')]
    /\ UNCHANGED <<inv, job, shards, registry, log>>

\* add_all_public_udfs(): the loop enters add_public_udf for the first member.
StartAddAllPublicUdfs(p, edited) ==
    /\ CanStart(p)
    /\ Import(edited)
    /\ proc' = [proc EXCEPT ![p] = EnterAddPublicUdf(p, "all", 1, DefaultNamespace,
                                                       catalog')]
    /\ UNCHANGED <<inv, job, shards, registry, log>>

\* Line 40: the list_arrays call and udf_exists' evaluation of its response.
Lookup(p, response) ==
    /\ proc[p].pc = "lookup"
    /\ response \in Responses(registry, proc[p].ns, udf_name(p))
    /\ LET found == udf_exists(response, udf_name(p))
           seen == [proc[p] EXCEPT
                        !.response = response.kind,
                        !.listed = {a.name : a \in response.arrays},
                        !.seen = {a.body : a \in
                                     {b \in response.arrays :
                                         b.name = udf_name(p)}},
                        !.faulted = @ \/ response.kind # "list"]
       IN  /\ proc' = [proc EXCEPT ![p] =
                  IF response.kind = "raise" \/ found.raised
                  THEN [seen EXCEPT !.pc = "raised"]
                  ELSE [seen EXCEPT !.pc = "write", !.exists = found.value]]
           /\ log' = IF response.kind = "raise"
                     THEN Append(log, LogEntry(p, seen, "none", "LookupError"))
                     ELSE IF found.raised
                     THEN Append(log, LogEntry(p, seen, "none", "StopIteration"))
                     ELSE log
    /\ UNCHANGED <<inv, job, shards, registry, catalog>>

\* add_all_public_udfs with the except-and-continue loop it does not have:
\* a failed platform call is skipped and the loop goes on to the next member.
WriteAndCarryOn(p) ==
    /\ proc[p].pc = "write"
    /\ LET call == WriteCall(proc[p].exists)
           r == IF call = "register"
                THEN register_generic_udf(registry, proc[p].udf_code,
                                          udf_name(p), proc[p].ns)
                ELSE update_generic_udf(registry, proc[p].udf_code,
                                        udf_name(p), proc[p].ns)
       IN  /\ registry' = r.reg
           /\ proc' = [proc EXCEPT ![p] =
                  IF proc[p].op = "all" /\ proc[p].idx < Len(CatalogNames)
                  THEN EnterAddPublicUdf(p, "all", proc[p].idx + 1, proc[p].ns,
                                         proc[p].udf_code.code.version)
                  ELSE [@ EXCEPT !.pc = IF r.exc # None THEN "raised"
                                        ELSE "returned"]]
           /\ log' = Append(log, LogEntry(p, proc[p], call, r.exc))
    /\ UNCHANGED <<inv, job, shards, catalog>>

\* Lines 41 and 43: the platform call the lookup chose, then the return of
\* add_public_udf and, in add_all_public_udfs, the next member of the loop.
Write(p) ==
    /\ proc[p].pc = "write"
    /\ LET call == WriteCall(proc[p].exists)
           r == IF call = "register"
                THEN register_generic_udf(registry, proc[p].udf_code,
                                          udf_name(p), proc[p].ns)
                ELSE update_generic_udf(registry, proc[p].udf_code,
                                        udf_name(p), proc[p].ns)
       IN  /\ registry' = r.reg
           /\ proc' = [proc EXCEPT ![p] =
                  IF r.exc # None THEN [@ EXCEPT !.pc = "raised"]
                  ELSE IF proc[p].op = "all" /\ proc[p].idx < Len(CatalogNames)
                  THEN EnterAddPublicUdf(p, "all", proc[p].idx + 1, proc[p].ns,
                                         proc[p].udf_code.code.version)
                  ELSE [@ EXCEPT !.pc = "returned"]]
           /\ log' = Append(log, LogEntry(p, proc[p], call, r.exc))
    /\ UNCHANGED <<inv, job, shards, catalog>>

\* The registries a run can find: any of the catalog's names and of the
\* test fixture's, each at most once per namespace.
InitialRegistries ==
    LET names == {CatalogNames[i] : i \in 1..Len(CatalogNames)}
                    \cup {TestName(CatalogNames[1])}
        keys == ({DefaultNamespace} \X names)
                    \cup {<<"unittest", TestName(CatalogNames[1])>>}
    IN  {{[ns |-> k[1], name |-> k[2], body |-> StaleBody(k[2])] : k \in ks}
            : ks \in SUBSET keys}

InitNoIngest ==
    /\ inv = [udf |-> "none"]
    /\ job = [udf |-> "none"]
    /\ shards = <<>>

InitRegistration(procs, ops) ==
    /\ InitNoIngest
    /\ registry \in InitialRegistries
    /\ catalog = 1
    /\ proc = [p \in procs |-> Idle(ops)]
    /\ log = <<>>

\* One process, its operations one after the other.
Init == InitRegistration({1}, MaxOps)

Next ==
    \/ \E p \in DOMAIN proc, i \in 1..Len(CatalogNames), ns \in Namespaces,
          edited \in BOOLEAN : StartAddPublicUdf(p, i, ns, edited)
    \/ \E p \in DOMAIN proc, edited \in BOOLEAN : StartAddAllPublicUdfs(p, edited)
    \/ \E p \in DOMAIN proc :
          \E response \in Responses(registry, proc[p].ns, udf_name(p)) :
              Lookup(p, response)
    \/ \E p \in DOMAIN proc : Write(p)

Spec == Init /\ [][Next]_vars

\* Two processes, one registration run each, with no order between them.
InitRace == InitRegistration({1, 2}, 1)

SpecRace == InitRace /\ [][Next]_vars

(***************************************************************************)
(* Properties of the UDF catalog.                                          *)
(***************************************************************************)
\* The ingest_vcf_samples invocation in inv took the slice and called
\* ingest_samples with it.
VcfIngested ==
    /\ inv.udf = "ingest_vcf_samples"
    /\ Len(inv.result.kwargs) >= 1

\* 0 <= i < k for the invocation in inv.
ValidPartition ==
    /\ inv.args.partition_idx_count[1] >= 0
    /\ inv.args.partition_idx_count[1] < inv.args.partition_idx_count[2]

\* The ceiling of a / k for k > 0.
Ceil(a, k) == -((-a) \div k)

\* Every partition of the job has been invoked and has returned.
AllPartitionsReturned ==
    /\ DOMAIN shards = 0..(job.sp_n - 1)
    /\ \A i \in DOMAIN shards : ~shards[i].raised

\* The (partition, place) pairs of the returned shards.
ShardSlots ==
    {s \in (DOMAIN shards) \X (1..(MaxLen + 1)) : s[2] <= Len(shards[s[1]].ret)}

\* C1: once the k partitions (i, k), i = 0..k-1, of a sample list S have
\* returned, every position of S is in exactly one shard and every place of
\* a shard holds the sample of a position of S: the shards partition S with
\* no duplicates and no gaps.
C1_ShardsPartitionSamples ==
    AllPartitionsReturned =>
        LET S == AsList(job.sample_uris)
        IN  /\ \A q \in 0..(Len(S) - 1) :
                  Cardinality({s \in ShardSlots :
                                  shards[s[1]].positions[s[2]] = q}) = 1
            /\ \A s \in ShardSlots :
                  /\ Len(shards[s[1]].positions) = Len(shards[s[1]].ret)
                  /\ shards[s[1]].positions[s[2]] \in 0..(Len(S) - 1)
                  /\ shards[s[1]].ret[s[2]] = S[shards[s[1]].positions[s[2]] + 1]
            /\ Cardinality(ShardSlots) = Len(S)

C1_Witness ==
    /\ AllPartitionsReturned
    /\ job.sp_n = 2
    /\ job.sample_uris.kind = "list"
    /\ Len(job.sample_uris.val) = 3
    /\ job.sample_uris.val[1] # job.sample_uris.val[2]

\* C5: for 0 <= i < k the shard handed to ingest_samples is S[i], S[i+k],
\* S[i+2k], ... in the order of S, and its length is ceil((n - i) / k), which
\* is 0 when i >= n.
C5_ShardIsStrideSlice ==
    (VcfIngested /\ ValidPartition) =>
        LET S == AsList(inv.args.sample_uris)
            i == inv.args.partition_idx_count[1]
            k == inv.args.partition_idx_count[2]
            shard == inv.result.kwargs[1].sample_uris
        IN  /\ Len(shard) = Ceil(Len(S) - i, k)
            /\ i >= Len(S) => Len(shard) = 0
            /\ \A j \in 1..Len(shard) :
                  /\ i + (j - 1) * k < Len(S)
                  /\ shard[j] = S[i + (j - 1) * k + 1]

C5_Witness ==
    /\ VcfIngested
    /\ inv.args.partition_idx_count = <<0, 2>>
    /\ inv.args.sample_uris.kind = "list"
    /\ Len(inv.args.sample_uris.val) = 3
    /\ inv.args.sample_uris.val[1] # inv.args.sample_uris.val[3]
    /\ Len(inv.result.kwargs[1].sample_uris) = 2

\* C6: an ingest_vcf_samples invocation that returns made one ingest_samples
\* call and returns the list it passed there as sample_uris; for a scalar
\* string and 0 <= i < k that list is the one-element list of the string when
\* i = 0 and the empty list otherwise.
C6_ReturnsIngestedShard ==
    (inv.udf = "ingest_vcf_samples" /\ ~inv.result.raised) =>
        /\ Len(inv.result.kwargs) = 1
        /\ inv.result.ret = inv.result.kwargs[1].sample_uris
        /\ (inv.args.sample_uris.kind = "str" /\ ValidPartition) =>
              inv.result.ret =
                  IF inv.args.partition_idx_count[1] = 0
                  THEN <<inv.args.sample_uris.val>> ELSE <<>>

C6_Witness ==
    /\ inv.udf = "ingest_vcf_samples"
    /\ ~inv.result.raised
    /\ inv.args.sample_uris.kind = "list"
    /\ Len(inv.args.sample_uris.val) = 3
    /\ inv.args.partition_idx_count = <<1, 2>>
    /\ inv.result.ret = <<inv.args.sample_uris.val[2]>>

\* The external ingest operation of the UDF in inv.
IngestOp == IF inv.udf = "ingest_vcf_samples" THEN "ingest_samples" ELSE "from_csv"

\* How often the invocation in inv called op.
Calls(op) ==
    Cardinality({j \in DOMAIN inv.result.trace : inv.result.trace[j] = op})

\* C7: an invocation of ingest_csv (either one) or of ingest_vcf_samples calls
\* its external ingest operation at most once; when that call raises, it is
\* the last external call, its error is what leaves the function, and nothing
\* is returned.
C7_IngestErrorPropagates ==
    inv.udf # "none" =>
        /\ Calls(IngestOp) <= 1
        /\ (inv.fail = IngestOp /\ Calls(IngestOp) >= 1) =>
              /\ inv.result.trace[Len(inv.result.trace)] = IngestOp
              /\ inv.result.raised
              /\ inv.result.exc = IngestOp
              /\ inv.result.ret = None

C7_Witness ==
    /\ inv.udf = "ingest_csv"
    /\ inv.fail = "from_csv"
    /\ Calls("from_csv") = 1
    /\ inv.result.raised

\* A contig name: a string, not None, that is not empty.
IsContigName(contig) == contig \notin {None, ""}

\* C8: ingest_samples is called with contig_mode "separate" and
\* contigs_to_keep_separate = [contig] when a contig name is supplied, with
\* contig_mode "merged" and no contigs_to_keep_separate otherwise, and with
\* the caller's resume flag either way.
C8_ContigModeAndResume ==
    VcfIngested =>
        LET kw == inv.result.kwargs[1]
            contig == inv.args.contig
        IN  /\ IF IsContigName(contig)
               THEN /\ kw.contig_mode = "separate"
                    /\ "contigs_to_keep_separate" \in DOMAIN kw
                    /\ kw.contigs_to_keep_separate = <<contig>>
               ELSE /\ kw.contig_mode = "merged"
                    /\ "contigs_to_keep_separate" \notin DOMAIN kw
            /\ kw.resume = inv.args.resume

C8_Witness ==
    /\ VcfIngested
    /\ inv.args.contig = "chr1"
    /\ inv.args.resume
    /\ inv.result.kwargs[1].contig_mode = "separate"

(***************************************************************************)
(* Properties of the registration manager.                                 *)
(***************************************************************************)
\* The registry holds exactly one entry of that name, with that body.
HoldsOnly(namespace, name, body) ==
    Entries(registry, namespace, name)
        = {[ns |-> namespace, name |-> name, body |-> body]}

\* C2: when add_public_udf has run twice in a row for the same namespace and
\* name, the platform answering both lookups with a listing, the second run
\* has not failed and the registry holds exactly one entry of that name,
\* with the body the second run sent.
C2_ReRegistrationIsIdempotent ==
    Len(log) >= 2 =>
        LET first == log[Len(log) - 1]
            second == log[Len(log)]
        IN  (/\ first.ns = second.ns
             /\ first.name = second.name
             /\ first.response = "list"
             /\ second.response = "list")
            => /\ second.exc = None
               /\ HoldsOnly(second.ns, second.name, second.body)

\* C3: when add_all_public_udfs has run, the platform having answered every
\* lookup with a listing, the registry holds for every catalog function
\* exactly one entry <DefaultNamespace>/<function name>, whose body has the
\* code of the catalog's current definition.
C3_RegistryMatchesCatalogAfterRun ==
    \A p \in DOMAIN proc :
        (/\ proc[p].op = "all"
         /\ proc[p].pc \in {"returned", "raised"}
         /\ ~proc[p].faulted)
        => \A i \in 1..Len(CatalogNames) :
              \E e \in registry :
                  /\ Entries(registry, DefaultNamespace, CatalogNames[i]) = {e}
                  /\ e.body.code = CatalogFunction(i, catalog).code

\* C4: an add_public_udf whose lookup failed or came back with no listing
\* called neither register_generic_udf nor update_generic_udf and ended with
\* an error.
C4_LookupFailureIsNotAbsence ==
    \A j \in 1..Len(log) :
        log[j].response \in {"raise", "none"}
            => /\ log[j].call = "none"
               /\ log[j].exc # None

\* C9: an add_public_udf whose lookup was answered with a listing called
\* update_generic_udf when the listing held an entry of exactly its name and
\* register_generic_udf when it did not (an empty listing, or a listing of
\* other names only).
C9_ExactNameDecidesCall ==
    \A j \in 1..Len(log) :
        log[j].response = "list"
            => log[j].call = IF log[j].name \in log[j].listed
                             THEN "update" ELSE "register"

\* Entry i of the log is a successful write of another process to the
\* name entry j is about.
WroteBefore(i, j) ==
    /\ i < j
    /\ log[i].p # log[j].p
    /\ log[i].ns = log[j].ns
    /\ log[i].name = log[j].name
    /\ log[i].call # "none"
    /\ log[i].exc = None

\* C10: the platform call of add_public_udf is chosen by what its lookup
\* listed, not by what the registry holds when the call arrives.  So with
\* two concurrent runs a register can meet an entry that a register of the
\* other run created after the lookup (a duplicate-creation error), and an
\* update can replace a body its run never saw, the one the other run wrote
\* after the lookup (a lost update); neither happens without such a write
\* of the other run.
C10_CheckThenWriteIsNotAtomic ==
    \A j \in 1..Len(log) :
        log[j].call # "none" =>
            /\ log[j].call = IF log[j].name \in log[j].listed
                             THEN "update" ELSE "register"
            /\ (log[j].response = "list" /\ log[j].exc = "DuplicateError")
                  => \E i \in 1..Len(log) :
                        /\ WroteBefore(i, j)
                        /\ log[i].call = "register"
                        /\ log[j].before = {log[i].body}
            /\ (log[j].call = "update" /\ log[j].before # log[j].seen)
                  => /\ log[j].exc = None
                     /\ \E i \in 1..Len(log) :
                           /\ WroteBefore(i, j)
                           /\ log[j].before = {log[i].body}

\* Both interleavings in one behaviour of two add_all_public_udfs runs: the
\* runs' updates of one name, the later replacing the body the earlier wrote
\* and the later run never saw, and their registers of another name, both
\* lookups having listed nothing, the later ending in DuplicateError.
C10_Witness ==
    \E a, b, c, d \in 1..Len(log) :
        /\ WroteBefore(a, b)
        /\ log[a].call = "update" /\ log[b].call = "update"
        /\ log[b].exc = None
        /\ log[a].body # log[b].body
        /\ log[a].body \notin log[b].seen
        /\ log[b].before = {log[a].body}
        /\ HoldsOnly(log[b].ns, log[b].name, log[b].body)
        /\ WroteBefore(c, d)
        /\ log[c].response = "list" /\ log[d].response = "list"
        /\ log[c].listed = {} /\ log[d].listed = {}
        /\ log[c].call = "register" /\ log[d].call = "register"
        /\ log[d].exc = "DuplicateError"
        /\ HoldsOnly(log[c].ns, log[c].name, log[c].body)

\* The member of the catalog a transmitted body was built from: same name,
\* same revision of public_udfs.py.
CatalogMember(body) ==
    {CatalogFunction(i, body.code.version) : i \in
        {k \in 1..Len(CatalogNames) : CatalogNames[k] = body.code.co_name}}

\* C11: every callable that add_public_udf has handed to register_generic_udf
\* or update_generic_udf has an empty captured environment and the name, the
\* code and the default bindings of the catalog operation it was built from:
\* stats and resume of ingest_vcf_samples keep their defaults (False, False).
C11_TransmittedCallableKeepsSignature ==
    \A j \in 1..Len(log) :
        log[j].call # "none" =>
            /\ log[j].body.globals = {}
            /\ log[j].name = log[j].body.code.co_name
            /\ \E f \in CatalogMember(log[j].body) :
                  /\ log[j].body.code = f.code
                  /\ log[j].body.defaults = f.defaults

\* The run of add_all_public_udfs that process p is in has failed.
AllRunRaised(p) == proc[p].op = "all" /\ proc[p].pc = "raised"

\* C12: when a run of add_all_public_udfs has failed at its i-th catalog
\* operation, the last thing it did is that operation's failed step, so no
\* lookup, register or update follows for the operations after it; the i-1
\* steps before it are the successful register or update calls of the
\* operations 1 .. i-1, in catalog order, and the registry still holds, for
\* each of them, exactly the entry that call wrote.
C12_AllStopsAtFirstFailureNoRollback ==
    \A p \in DOMAIN proc :
        AllRunRaised(p) =>
            LET i == proc[p].idx
                n == Len(log)
            IN  /\ i \in 1..Len(CatalogNames)
                /\ n >= i
                /\ log[n].p = p /\ log[n].op = "all"
                /\ log[n].name = CatalogNames[i]
                /\ log[n].exc # None
                /\ log[n].exc \in {"LookupError", "StopIteration"}
                      <=> log[n].call = "none"
                /\ \A m \in 1..(i - 1) :
                      LET e == log[n - i + m]
                      IN  /\ e.p = p /\ e.op = "all" /\ e.ns = proc[p].ns
                          /\ e.name = CatalogNames[m]
                          /\ e.call \in {"register", "update"}
                          /\ e.exc = None
                          /\ HoldsOnly(e.ns, e.name, e.body)

\* A run that wrote ingest_csv and then failed at ingest_vcf_samples, and
\* before it a run that failed at ingest_csv and never reached
\* ingest_vcf_samples: the entry of ingest_csv is the one the later run
\* wrote, and ingest_vcf_samples has no entry.
C12_Witness ==
    \E p \in DOMAIN proc :
        /\ AllRunRaised(p)
        /\ proc[p].idx = 2
        /\ Len(log) = 3
        /\ log[1].op = "all" /\ log[1].name = CatalogNames[1]
        /\ log[1].exc # None
        /\ log[2].op = "all" /\ log[2].name = CatalogNames[1]
        /\ log[2].call \in {"register", "update"} /\ log[2].exc = None
        /\ log[3].name = CatalogNames[2] /\ log[3].exc # None
        /\ HoldsOnly(DefaultNamespace, CatalogNames[1], log[2].body)
        /\ Entries(registry, DefaultNamespace, CatalogNames[2]) = {}

====
